---------------------------- MODULE Spec2Model ----------------------------
(***************************************************************************)
(* Model of restakingpy.accounts.vault.config.Config:                      *)
(*   - Config.deserialize(data)            (the layout decoder)            *)
(*   - Config.seeds()                      (the PDA seed list)             *)
(*   - Config.find_program_address(pid)    (the address deriver)           *)
(*                                                                         *)
(* Representation.                                                         *)
(*   bytes      a sequence of naturals in 0..255; Python index k is        *)
(*              TLA+ index k+1.                                            *)
(*   Pubkey     the 32 bytes it was built from.                            *)
(*   int        Python ints are unbounded and a u64 does not fit the       *)
(*              32-bit integers of TLC, so an int is the sequence of       *)
(*              its base-256 digits, most significant first, without       *)
(*              leading zeros (0 is <<>>, 100 is <<100>>, 0x1234 is        *)
(*              <<18, 52>>).  ToNat gives the number where it is small.    *)
(*   outcome    a record with a status field: "none" (no call yet),        *)
(*              "ok" (the returned value) or "error" (the exception that   *)
(*              left the call, with the field whose read raised it).       *)
(***************************************************************************)
EXTENDS Integers, Sequences, FiniteSets

VARIABLES
    pc,           \* position of the caller
    data,         \* the buffer the caller holds
    result,       \* outcome of Config.deserialize(data), or None
    prevData,     \* the buffer of the previous decode
    prevResult,   \* the outcome of the previous decode
    original,     \* the Config value data was encoded from, or None
    onCurve,      \* the curve-membership oracle of the derivation primitive
    programId,    \* argument of the last find_program_address call
    pdaResult,    \* outcome of the last find_program_address call
    pdaPrev,      \* (argument, outcome) of the call before it
    seedsResult,  \* value returned by the last seeds() call
    calls         \* number of deriver calls made

vars == <<pc, data, result, prevData, prevResult, original,
          onCurve, programId, pdaResult, pdaPrev, seedsResult, calls>>

-----------------------------------------------------------------------------
(* Bounds of the model                                                     *)

\* longest buffer handed to the decoder
MaxLen == 164
\* byte patterns a * k + b: strides a = 7 * s for s in 0..MaxStride
MaxStride == 2
\* and start bytes b = FillTable entries 0..MaxFill
MaxFill == 2
\* selectors of the Config values that are encoded for the round trip
MaxPkSel == 1
MaxU64Sel == 4
MaxU16Sel == 3
MaxBumpSel == 2
\* longest run of trailing bytes appended by the caller
MaxTail == 2
\* program ids 0..MaxProgramSel, curve oracles 0..MaxCurveSel per program id
MaxProgramSel == 1
MaxCurveSel == 5
\* deriver calls per run
MaxCalls == 3

-----------------------------------------------------------------------------
(* Bytes, slices, integers                                                 *)

Byte == 0..255

Min(a, b) == IF a < b THEN a ELSE b

\* Python data[a:b] for 0 <= a <= b: clamped to the buffer, never raises
Slice(s, a, b) == SubSeq(s, Min(a, Len(s)) + 1, Min(b, Len(s)))

Reverse(s) == [i \in 1..Len(s) |-> s[Len(s) + 1 - i]]

RECURSIVE StripLeadingZeros(_)
StripLeadingZeros(s) ==
    IF s = <<>> THEN <<>>
    ELSE IF Head(s) = 0 THEN StripLeadingZeros(Tail(s))
    ELSE s

\* mutant of IntFromBytes: the byteorder argument is ignored (always big)
IntFromBytesAlwaysBig(raw, byteorder) == StripLeadingZeros(raw)

\* int.from_bytes(raw, byteorder): never fails, b"" gives 0
IntFromBytes(raw, byteorder) ==
    IF byteorder = "little" THEN StripLeadingZeros(Reverse(raw))
    ELSE StripLeadingZeros(raw)

\* the default byteorder of int.from_bytes (Python 3.11)
DefaultByteorder == "big"

\* Pubkey.from_bytes(raw) accepts exactly 32 bytes and raises otherwise
PUBKEY_BYTES == 32
PubkeyFromBytesOk(raw) == Len(raw) = PUBKEY_BYTES

None == [status |-> "none"]

\* the exception leaving deserialize at the read of the named field
Raise(field) == [status |-> "error", error |-> "ValueError", at |-> field]

-----------------------------------------------------------------------------
(* Config.deserialize: the cursor after each `offset += n`                 *)

\* mutant of OffAdmin: the discriminator is not skipped
OffAdminNoSkip == 0 + 0

OffAdmin == 0 + 8
OffRestakingProgram == OffAdmin + 32
OffEpochLength == OffRestakingProgram + 32

\* mutant of OffNumVaults: epoch_length advanced as a 4-byte field
OffNumVaultsShort == OffEpochLength + 4

OffNumVaults == OffEpochLength + 8
OffDepositWithdrawalFeeCapBps == OffNumVaults + 8
OffFeeRateOfChangeBps == OffDepositWithdrawalFeeCapBps + 2
OffFeeBumpBps == OffFeeRateOfChangeBps + 2
OffProgramFeeBps == OffFeeBumpBps + 2
OffProgramFeeWallet == OffProgramFeeBps + 2
OffFeeAdmin == OffProgramFeeWallet + 32

\* mutant of OffBump: the cursor is advanced by 16 after fee_admin
OffBumpAt144 == OffFeeAdmin + 16

OffBump == OffFeeAdmin + 32

\* mutant of BumpBytes: the slice has no upper end (data[offset:])
BumpBytesToEnd(d) == Slice(d, OffBump, Len(d))

\* data[offset:offset + 1] of the bump read
BumpBytes(d) == Slice(d, OffBump, OffBump + 1)

\* Config.deserialize(data).  The statements run in source order; only the
\* four Pubkey.from_bytes calls can raise, the int reads take whatever the
\* slice holds.
deserialize(d) ==
    LET admin == Slice(d, OffAdmin, OffAdmin + 32)
        restaking_program ==
            Slice(d, OffRestakingProgram, OffRestakingProgram + 32)
        epoch_length ==
            IntFromBytes(Slice(d, OffEpochLength, OffEpochLength + 8),
                         "little")
        num_vaults ==
            IntFromBytes(Slice(d, OffNumVaults, OffNumVaults + 8), "little")
        deposit_withdrawal_fee_cap_bps ==
            IntFromBytes(Slice(d, OffDepositWithdrawalFeeCapBps,
                               OffDepositWithdrawalFeeCapBps + 2), "little")
        fee_rate_of_change_bps ==
            IntFromBytes(Slice(d, OffFeeRateOfChangeBps,
                               OffFeeRateOfChangeBps + 2), "little")
        fee_bump_bps ==
            IntFromBytes(Slice(d, OffFeeBumpBps, OffFeeBumpBps + 2),
                         "little")
        program_fee_bps ==
            IntFromBytes(Slice(d, OffProgramFeeBps, OffProgramFeeBps + 2),
                         "little")
        program_fee_wallet ==
            Slice(d, OffProgramFeeWallet, OffProgramFeeWallet + 32)
        fee_admin == Slice(d, OffFeeAdmin, OffFeeAdmin + 32)
        bump == IntFromBytes(BumpBytes(d), DefaultByteorder)
    IN  IF ~PubkeyFromBytesOk(admin) THEN Raise("admin")
        ELSE IF ~PubkeyFromBytesOk(restaking_program)
            THEN Raise("restaking_program")
        ELSE IF ~PubkeyFromBytesOk(program_fee_wallet)
            THEN Raise("program_fee_wallet")
        ELSE IF ~PubkeyFromBytesOk(fee_admin) THEN Raise("fee_admin")
        ELSE \* Config(...): the constructor stores its arguments
             [status |-> "ok",
              admin |-> admin,
              restaking_program |-> restaking_program,
              epoch_length |-> epoch_length,
              num_vaults |-> num_vaults,
              deposit_withdrawal_fee_cap_bps |->
                  deposit_withdrawal_fee_cap_bps,
              fee_rate_of_change_bps |-> fee_rate_of_change_bps,
              fee_bump_bps |-> fee_bump_bps,
              program_fee_bps |-> program_fee_bps,
              program_fee_wallet |-> program_fee_wallet,
              fee_admin |-> fee_admin,
              bump |-> bump]

-----------------------------------------------------------------------------
(* Config.seeds and Config.find_program_address                            *)

\* b"config"
ConfigTag == <<99, 111, 110, 102, 105, 103>>

\* mutant of seeds: the tag is spelled "Config"
seedsCapitalised == << <<67, 111, 110, 102, 105, 103>> >>

\* Config.seeds()
seeds == << ConfigTag >>

\* The derivation primitive Pubkey.find_program_address of the solders
\* library, as the specification describes it: the bump runs from 255 down,
\* the candidate is the hash of the seeds, the bump byte and the program id,
\* the first candidate that is off the curve is accepted, and the search
\* fails when there is none.  The hash is kept symbolic (a candidate is the
\* record of what was hashed) and curve membership is the oracle onCurve.
MAX_BUMP == 255

Candidate(seedList, bump, program_id) ==
    [hashed |-> Append(seedList, <<bump>>), program_id |-> program_id]

IsOnCurve(address) ==
    LET n == Len(address.hashed)
    IN  /\ n = 2
        /\ address.hashed[1] = ConfigTag
        /\ address.hashed[n][1] \in onCurve[address.program_id]

\* the bumps of 0..255 whose candidate is off the curve
OffCurveBumps(seedList, program_id) ==
    { b \in 0..MAX_BUMP : ~IsOnCurve(Candidate(seedList, b, program_id)) }

\* counting down from 255, the first off-curve bump is the largest one
PubkeyFindProgramAddress(seedList, program_id) ==
    LET off == OffCurveBumps(seedList, program_id)
    IN  IF off = {}
        THEN [status |-> "error", error |-> "DerivationExhausted"]
        ELSE LET bump == CHOOSE b \in off : \A c \in off : c <= b
             IN  [status |-> "ok",
                  address |-> Candidate(seedList, bump, program_id),
                  bump |-> bump]

\* the all-zero address
ZeroAddress == [hashed |-> <<>>, program_id |-> <<>>]

\* mutant of find_program_address: a failed search is swallowed and the
\* all-zero address is returned with bump 0
find_program_address_swallow(program_id) ==
    LET r == PubkeyFindProgramAddress(seeds, program_id)
    IN  IF r.status = "error"
        THEN [status |-> "ok", pda |-> ZeroAddress, bump |-> 0,
              seeds |-> seeds]
        ELSE [status |-> "ok", pda |-> r.address, bump |-> r.bump,
              seeds |-> seeds]

\* mutant of find_program_address: the primitive is called without seeds
find_program_address_noseeds(program_id) ==
    LET r == PubkeyFindProgramAddress(<<>>, program_id)
    IN  IF r.status = "error" THEN r
        ELSE [status |-> "ok", pda |-> r.address, bump |-> r.bump,
              seeds |-> seeds]

\* Config.find_program_address(program_id): no try/except, so a failure of
\* the primitive leaves the call as it is
find_program_address(program_id) ==
    LET r == PubkeyFindProgramAddress(seeds, program_id)
    IN  IF r.status = "error" THEN r
        ELSE [status |-> "ok", pda |-> r.address, bump |-> r.bump,
              seeds |-> seeds]

-----------------------------------------------------------------------------
(* Inputs of the callers                                                   *)

At(table, k) == table[(k % Len(table)) + 1]

FillTable == <<0, 255, 1, 128, 52, 18, 5, 100>>

\* the buffer of the given length whose byte k is 7 * s * k + fill (mod 256)
Pattern(len, s, f) ==
    [i \in 1..len |-> (7 * s * (i - 1) + At(FillTable, f)) % 256]

Fill(len, byte) == [i \in 1..len |-> byte]

\* buf with the given bytes written at Python index off
Overlay(buf, off, bytes) ==
    [i \in 1..Len(buf) |->
        IF i > off /\ i <= off + Len(bytes) THEN bytes[i - off] ELSE buf[i]]

\* the example account: admin all 0x01, restaking_program all 0x02,
\* epoch_length 100, and 0x05 at the given index
ExampleBuffer(bumpIndex) ==
    Overlay(Overlay(Overlay(Overlay(Fill(161, 0),
        8, Fill(32, 1)), 40, Fill(32, 2)),
        72, <<100, 0, 0, 0, 0, 0, 0, 0>>), bumpIndex, <<5>>)

ScenarioBuffers ==
    { ExampleBuffer(144), ExampleBuffer(160),
      Overlay(Fill(161, 0), 88, <<52, 18>>),
      Overlay(Fill(161, 0), 88, <<18, 52>>) }

PubkeyTable(n) == [i \in 1..32 |-> (n * 32 + i * (2 * n + 1)) % 256]

U64Table ==
    << <<>>, <<100>>, <<255, 255, 255, 255, 255, 255, 255, 255>>,
       <<1, 2, 3, 4, 5, 6, 7, 8>>, <<1, 0, 0, 0, 0>>,
       <<128, 0, 0, 0, 0, 0, 0, 0>> >>

U16Table == << <<>>, <<18, 52>>, <<255, 255>>, <<1, 0>>, <<255>>, <<39, 16>> >>

U8Table == << <<>>, <<5>>, <<255>>, <<1>>, <<128>> >>

\* a Config value, its four kinds of field chosen by four selectors
ConfigValue(p, u, h, b) ==
    [status |-> "ok",
     admin |-> PubkeyTable(p),
     restaking_program |-> PubkeyTable(p + 1),
     epoch_length |-> At(U64Table, u),
     num_vaults |-> At(U64Table, u + 1),
     deposit_withdrawal_fee_cap_bps |-> At(U16Table, h),
     fee_rate_of_change_bps |-> At(U16Table, h + 1),
     fee_bump_bps |-> At(U16Table, h + 2),
     program_fee_bps |-> At(U16Table, h + 3),
     program_fee_wallet |-> PubkeyTable(p + 2),
     fee_admin |-> PubkeyTable(p + 3),
     bump |-> At(U8Table, b)]

\* n.to_bytes(width, "little")
ToBytesLittle(n, width) == Reverse(Fill(width - Len(n), 0) \o n)

\* the canonical layout of the account: the discriminator, then the fields
\* in the order of the layout table, integers little-endian
Encode(disc, c) ==
    disc \o c.admin \o c.restaking_program
         \o ToBytesLittle(c.epoch_length, 8)
         \o ToBytesLittle(c.num_vaults, 8)
         \o ToBytesLittle(c.deposit_withdrawal_fee_cap_bps, 2)
         \o ToBytesLittle(c.fee_rate_of_change_bps, 2)
         \o ToBytesLittle(c.fee_bump_bps, 2)
         \o ToBytesLittle(c.program_fee_bps, 2)
         \o c.program_fee_wallet \o c.fee_admin
         \o ToBytesLittle(c.bump, 1)

\* Config.discriminator = 1, as the 8-byte little-endian tag
NominalDiscriminator == <<1, 0, 0, 0, 0, 0, 0, 0>>

DiscriminatorValues ==
    { NominalDiscriminator, Fill(8, 0), Fill(8, 255),
      <<2, 0, 0, 0, 0, 0, 0, 0>> }

Tails == { Pattern(n, 1, f) : n \in 1..MaxTail, f \in 0..MaxFill }

\* the field boundaries of the layout, and the full length
CutPoints == {0, 8, 40, 72, 76, 80, 88, 90, 92, 94, 96, 128, 160, 161}

ProgramIds == { PubkeyTable(n) : n \in 0..MaxProgramSel }

\* the bumps whose candidate is on the curve, by selector
CurveSet(k) ==
    CASE k = 0 -> {}
      [] k = 1 -> {255}
      [] k = 2 -> 1..255
      [] k = 3 -> 0..255
      [] k = 4 -> { b \in 0..255 : b % 2 = 1 }
      [] OTHER -> (256 - 10 * k)..255

CurveOracles == [ProgramIds -> { CurveSet(k) : k \in 0..MaxCurveSel }]

-----------------------------------------------------------------------------
(* The callers                                                             *)

NoCall == [program_id |-> <<>>, outcome |-> None]

Init ==
    /\ pc = "start"
    /\ data = <<>>
    /\ result = None
    /\ prevData = <<>>
    /\ prevResult = None
    /\ original = None
    /\ onCurve = [p \in ProgramIds |-> {}]
    /\ programId = <<>>
    /\ pdaResult = None
    /\ pdaPrev = NoCall
    /\ seedsResult = None
    /\ calls = 0

deriverVars == <<onCurve, programId, pdaResult, pdaPrev, seedsResult, calls>>

\* the caller obtains an account buffer
Receive(buf, cfg) ==
    /\ pc = "start"
    /\ data' = buf
    /\ original' = cfg
    /\ pc' = "loaded"
    /\ UNCHANGED <<result, prevData, prevResult>>
    /\ UNCHANGED deriverVars

ReceivePattern ==
    \E len \in 0..MaxLen, s \in 0..MaxStride, f \in 0..MaxFill :
        Receive(Pattern(len, s, f), None)

ReceiveScenario == \E buf \in ScenarioBuffers : Receive(buf, None)

ReceiveEncoded ==
    \E p \in 0..MaxPkSel, u \in 0..MaxU64Sel,
       h \in 0..MaxU16Sel, b \in 0..MaxBumpSel :
        Receive(Encode(NominalDiscriminator, ConfigValue(p, u, h, b)),
                ConfigValue(p, u, h, b))

\* the caller calls Config.deserialize(data)
Deserialize ==
    /\ pc \in {"loaded", "reloaded"}
    /\ result' = deserialize(data)
    /\ pc' = IF pc = "loaded" THEN "decoded" ELSE "done"
    /\ UNCHANGED <<data, prevData, prevResult, original>>
    /\ UNCHANGED deriverVars

\* the caller keeps the outcome and changes the buffer for a second decode
Change(buf, cfg) ==
    /\ pc = "decoded"
    /\ prevData' = data
    /\ prevResult' = result
    /\ data' = buf
    /\ result' = None
    /\ original' = cfg
    /\ pc' = "reloaded"
    /\ UNCHANGED deriverVars

SetDiscriminator ==
    \E disc \in DiscriminatorValues :
        Change(Overlay(data, 0, disc), original)

AppendTail == \E t \in Tails : Change(data \o t, None)

Truncate ==
    \E n \in CutPoints : n < Len(data) /\ Change(SubSeq(data, 1, n), None)

decoderVars == <<data, result, prevData, prevResult, original>>

\* the caller turns to the address deriver; the curve is what it is
BeginDerive ==
    /\ pc = "start"
    /\ onCurve' \in CurveOracles
    /\ pc' = "derive"
    /\ UNCHANGED <<programId, pdaResult, pdaPrev, seedsResult, calls>>
    /\ UNCHANGED decoderVars

\* the caller calls Config.find_program_address(program_id)
FindProgramAddress ==
    /\ pc = "derive"
    /\ calls < MaxCalls
    /\ \E program_id \in ProgramIds :
        /\ programId' = program_id
        /\ pdaResult' = find_program_address(program_id)
    /\ pdaPrev' = [program_id |-> programId, outcome |-> pdaResult]
    /\ calls' = calls + 1
    /\ UNCHANGED <<pc, onCurve, seedsResult>>
    /\ UNCHANGED decoderVars

\* the caller calls Config.seeds()
Seeds ==
    /\ pc = "derive"
    /\ calls < MaxCalls
    /\ seedsResult' = [status |-> "ok", value |-> seeds]
    /\ calls' = calls + 1
    /\ UNCHANGED <<pc, onCurve, programId, pdaResult, pdaPrev>>
    /\ UNCHANGED decoderVars

Next ==
    \/ ReceivePattern
    \/ ReceiveScenario
    \/ ReceiveEncoded
    \/ Deserialize
    \/ SetDiscriminator
    \/ AppendTail
    \/ Truncate
    \/ BeginDerive
    \/ FindProgramAddress
    \/ Seeds

Spec == Init /\ [][Next]_vars

-----------------------------------------------------------------------------
(* Properties                                                              *)

RECURSIVE ToNat(_)
ToNat(digits) ==
    IF digits = <<>> THEN 0
    ELSE 256 * ToNat(SubSeq(digits, 1, Len(digits) - 1))
         + digits[Len(digits)]

\* the coefficient of 256^i in n
Digit(n, i) == IF i < Len(n) THEN n[Len(n) - i] ELSE 0

Decoded == result.status # "none"

\* C1: every buffer shorter than 161 bytes makes Config.deserialize fail and
\* return no Config; in particular a buffer of exactly 160 bytes fails.
C1_ShortBufferFails ==
    (Decoded /\ Len(data) < 161) => result.status = "error"

\* C2: every buffer of 161 + k bytes decodes successfully, to the Config
\* decoded from its first 161 bytes alone; appending bytes to a buffer of at
\* least 161 bytes leaves the decoded Config unchanged.
C2_TrailingBytesIgnored ==
    /\ (Decoded /\ Len(data) >= 161) =>
          /\ result.status = "ok"
          /\ result = deserialize(SubSeq(data, 1, 161))
    /\ (pc = "done" /\ Len(prevData) >= 161 /\ Len(data) > Len(prevData)
           /\ SubSeq(data, 1, Len(prevData)) = prevData) =>
          result = prevResult

C2_Witness ==
    /\ pc = "done"
    /\ Len(prevData) = 161
    /\ Len(data) = 163
    /\ SubSeq(data, 1, 161) = prevData
    /\ data[162] # 0
    /\ result.status = "ok"
    /\ result.bump = <<5>>

\* C3: decoding the 161-byte canonical encoding of a Config value gives
\* back every field of that value, each under its own name.
C3_RoundTrip ==
    (Decoded /\ original.status = "ok") =>
        /\ Len(data) = 161
        /\ result = original

C3_Witness ==
    /\ pc = "decoded"
    /\ original.status = "ok"
    /\ result = original
    /\ result.epoch_length = <<255, 255, 255, 255, 255, 255, 255, 255>>
    /\ result.num_vaults = <<1, 2, 3, 4, 5, 6, 7, 8>>
    /\ result.deposit_withdrawal_fee_cap_bps = <<18, 52>>
    /\ result.bump = <<255>>
    /\ result.admin # result.fee_admin

\* the example account of the scenario, with 0x05 at the given index
IsExample(d, bumpIndex) ==
    /\ Len(d) = 161
    /\ \A i \in 8..39 : d[i + 1] = 1
    /\ \A i \in 40..71 : d[i + 1] = 2
    /\ SubSeq(d, 73, 80) = <<100, 0, 0, 0, 0, 0, 0, 0>>
    /\ d[bumpIndex + 1] = 5

ExampleDecoded ==
    /\ result.status = "ok"
    /\ result.admin = Fill(32, 1)
    /\ result.restaking_program = Fill(32, 2)
    /\ ToNat(result.epoch_length) = 100
    /\ ToNat(result.bump) = 5

\* C4 as stated: with bytes 8-39 all 0x01, bytes 40-71 all 0x02, bytes 72-79
\* [100,0,0,0,0,0,0,0] and byte 144 0x05, decoding yields admin = 32 x 0x01,
\* restaking_program = 32 x 0x02, epoch_length = 100 and bump = 5.
C4_ExampleBumpAt144 ==
    (Decoded /\ IsExample(data, 144)) => ExampleDecoded

\* C4 amended: the same buffer with the 0x05 at byte 160, the offset of the
\* bump field, decodes to admin = 32 x 0x01, restaking_program = 32 x 0x02,
\* epoch_length = 100 and bump = 5.
C4_ExampleBumpAt160 ==
    (Decoded /\ IsExample(data, 160)) => ExampleDecoded

C4_Witness ==
    /\ pc = "decoded"
    /\ IsExample(data, 160)
    /\ data[145] = 0
    /\ ExampleDecoded

\* the integer n is the little-endian reading of the w bytes of d at off
IsLittleEndianOf(n, d, off, w) ==
    /\ Len(n) <= w
    /\ \A i \in 0..(w - 1) : Digit(n, i) = d[off + i + 1]

\* C5: every multi-byte integer field of a decoded Config is the
\* little-endian value of its bytes (sum of byte[i] * 256^i); bytes
\* [0x34, 0x12] at offset 88 decode to 4660.
C5_LittleEndian ==
    result.status = "ok" =>
        /\ IsLittleEndianOf(result.epoch_length, data, 72, 8)
        /\ IsLittleEndianOf(result.num_vaults, data, 80, 8)
        /\ IsLittleEndianOf(result.deposit_withdrawal_fee_cap_bps,
                            data, 88, 2)
        /\ IsLittleEndianOf(result.fee_rate_of_change_bps, data, 90, 2)
        /\ IsLittleEndianOf(result.fee_bump_bps, data, 92, 2)
        /\ IsLittleEndianOf(result.program_fee_bps, data, 94, 2)
        /\ (data[89] = 52 /\ data[90] = 18) =>
              ToNat(result.deposit_withdrawal_fee_cap_bps) = 4660

C5_Witness ==
    /\ result.status = "ok"
    /\ data[89] = 52
    /\ data[90] = 18
    /\ ToNat(result.deposit_withdrawal_fee_cap_bps) = 4660

\* the two buffers have the same length and agree from byte 8 on
DifferOnlyInDiscriminator(d, e) ==
    /\ Len(d) = Len(e)
    /\ \A i \in 9..Len(d) : d[i] = e[i]

\* C6: two buffers of equal length that differ only in bytes 0-7 have the
\* same decode outcome, the same error or the same Config.
C6_DiscriminatorIgnored ==
    (pc = "done" /\ DifferOnlyInDiscriminator(prevData, data)) =>
        result = prevResult

C6_Witness ==
    /\ pc = "done"
    /\ Len(data) = 161
    /\ DifferOnlyInDiscriminator(prevData, data)
    /\ SubSeq(prevData, 1, 8) = NominalDiscriminator
    /\ SubSeq(data, 1, 8) = Fill(8, 255)
    /\ result.status = "ok"
    /\ result = prevResult

Derived == pdaResult.status # "none"

\* C7: when no bump in 0..255 gives an off-curve candidate for the program
\* id, find_program_address fails with DerivationExhausted and returns no
\* address and no bump.
C7_ExhaustedIsAnError ==
    (Derived /\ \A b \in 0..255 : b \in onCurve[programId]) =>
        /\ pdaResult.status = "error"
        /\ pdaResult.error = "DerivationExhausted"
        /\ DOMAIN pdaResult = {"status", "error"}

C7_Witness ==
    /\ Derived
    /\ \A b \in 0..255 : b \in onCurve[programId]
    /\ pdaResult.status = "error"

\* C8: seeds() returns the one-element sequence holding the bytes of
\* "config", and the seeds returned by find_program_address are that
\* sequence for every program id.
C8_SeedsAreConfigTag ==
    /\ seedsResult.status = "ok" =>
          seedsResult.value = << <<99, 111, 110, 102, 105, 103>> >>
    /\ pdaResult.status = "ok" =>
          pdaResult.seeds = << <<99, 111, 110, 102, 105, 103>> >>
    /\ pdaPrev.outcome.status = "ok" =>
          pdaPrev.outcome.seeds = << <<99, 111, 110, 102, 105, 103>> >>

C8_Witness ==
    /\ seedsResult.status = "ok"
    /\ pdaResult.status = "ok"
    /\ pdaPrev.outcome.status = "ok"
    /\ pdaPrev.program_id # programId
    /\ pdaResult.seeds = seedsResult.value

\* C9: a successful find_program_address returns a bump b in 0..255 and the
\* candidate of ["config"] + [b], which is off the curve, while every bump
\* above b is on the curve; two calls with the same program id return the
\* same outcome.
C9_CanonicalBump ==
    /\ pdaResult.status = "ok" =>
          /\ pdaResult.bump \in 0..255
          /\ pdaResult.pda =
                [hashed |-> << <<99, 111, 110, 102, 105, 103>>,
                               <<pdaResult.bump>> >>,
                 program_id |-> programId]
          /\ pdaResult.bump \notin onCurve[programId]
          /\ \A b \in (pdaResult.bump + 1)..255 : b \in onCurve[programId]
    /\ (Derived /\ pdaPrev.outcome.status # "none"
           /\ pdaPrev.program_id = programId) =>
          pdaResult = pdaPrev.outcome

C9_Witness ==
    /\ pdaResult.status = "ok"
    /\ pdaResult.bump = 254
    /\ 255 \in onCurve[programId]
    /\ pdaPrev.program_id = programId
    /\ pdaPrev.outcome = pdaResult

\* the first field of the layout that a buffer of n bytes cannot fill
FirstShortField(n) ==
    IF n < 40 THEN "admin"
    ELSE IF n < 72 THEN "restaking_program"
    ELSE IF n < 80 THEN "epoch_length"
    ELSE IF n < 88 THEN "num_vaults"
    ELSE IF n < 90 THEN "deposit_withdrawal_fee_cap_bps"
    ELSE IF n < 92 THEN "fee_rate_of_change_bps"
    ELSE IF n < 94 THEN "fee_bump_bps"
    ELSE IF n < 96 THEN "program_fee_bps"
    ELSE IF n < 128 THEN "program_fee_wallet"
    ELSE IF n < 160 THEN "fee_admin"
    ELSE IF n < 161 THEN "bump"
    ELSE "none"

\* C10: decoding fails at the first field, in layout order, for which the
\* buffer has fewer bytes left than the field's width, integer fields
\* included; an empty buffer fails at admin.
C10_FailsAtFirstShortField ==
    Decoded =>
        IF FirstShortField(Len(data)) = "none"
        THEN result.status = "ok"
        ELSE /\ result.status = "error"
             /\ result.at = FirstShortField(Len(data))

=============================================================================
